---- MODULE Spec2Model ----
(***************************************************************************)
(* XOrcaCloudEvent (src/src/index.ts): construction of the event from a    *)
(* raw record, its read-only views, and what a caller can do with the      *)
(* objects it holds afterwards.                                            *)
(*                                                                         *)
(* JavaScript values are tagged records.  A string is a sequence of        *)
(* symbols: single characters where the characters matter (URIs), one      *)
(* opaque symbol where they do not.  An object is a function from its own  *)
(* keys to values; the data payload lives in a heap and is held by         *)
(* reference.                                                              *)
(***************************************************************************)
EXTENDS Integers, Sequences, FiniteSets, TLC

\* ---------------------------------------------------------------- bounds
\* longest URI string (in symbols) a caller supplies
MaxLen == 1
\* how many times an event is re-constructed from its own toJSON()
MaxReconstruct == 1

\* ---------------------------------------------------------------- values
Undefined == [tag |-> "undefined"]
Null == [tag |-> "null"]
Str(s) == [tag |-> "string", chars |-> s]
Num(n) == [tag |-> "number", n |-> n]
Obj(r) == [tag |-> "object", ref |-> r]
EmptyString == Str(<< >>)

IsString(v) == v.tag = "string"

\* JavaScript truthiness, as used by `||` and `? :`
Falsy(v) == v \in {Undefined, Null, EmptyString}

\* a || b
Or(a, b) == IF Falsy(a) THEN b ELSE a

\* ---------------------------------------------------------------- fields
\* the constructor's assignments, in program order
AssignOrder ==
  << "id", "time", "type", "source", "datacontenttype", "subject", "data",
     "specversion", "to", "redirectto", "traceparent", "tracestate",
     "elapsedtime", "executionunits" >>

Range(s) == { s[i] : i \in 1..Len(s) }

\* the 14 declared fields
Fields == Range(AssignOrder)

DefaultContentType ==
  Str(<< "application/cloudevents+json; charset=UTF-8; profile=xorca" >>)

SpecVersion10 == Str(<< "1.0" >>)

\* ---------------------------------------------------------------- encodeURI
\* an unpaired UTF-16 surrogate: encodeURI throws URIError on it
LoneSurrogate == "\\uD800"

\* EscapeChar as encodeURIComponent does it: "/" is escaped too
EscapeCharComponent(c) ==
  CASE c = " " -> << "%", "2", "0" >>
    [] c = "%" -> << "%", "2", "5" >>
    [] c = "/" -> << "%", "2", "F" >>
    [] OTHER   -> << c >>

\* encodeURI leaves unreserved and reserved characters (such as "/") alone
\* and escapes the others; "%" itself is escaped to "%25"
EscapeChar(c) ==
  CASE c = " " -> << "%", "2", "0" >>
    [] c = "%" -> << "%", "2", "5" >>
    [] OTHER   -> << c >>

RECURSIVE EscapeAll(_)
EscapeAll(s) ==
  IF s = << >> THEN << >> ELSE EscapeChar(Head(s)) \o EscapeAll(Tail(s))

EncodeURIThrows(v) ==
  IsString(v) /\ \E i \in 1..Len(v.chars) : v.chars[i] = LoneSurrogate

\* encodeURI(v); non-strings are converted with ToString first
EncodeURI(v) ==
  CASE IsString(v)   -> Str(EscapeAll(v.chars))
    [] v = Undefined -> Str(<< "undefined" >>)
    [] v = Null      -> Str(<< "null" >>)
    [] OTHER         -> v

\* ---------------------------------------------------------------- time
Digits == << "0", "1", "2", "3", "4", "5", "6", "7", "8", "9" >>

\* the ISO-8601 text of the instant n milliseconds after the epoch
IsoString(n) == Str(<< "1970-01-01T00:00:00.00", Digits[n + 1], "Z" >>)

IsIsoString(v) ==
  /\ IsString(v)
  /\ Len(v.chars) = 3
  /\ v.chars[1] = "1970-01-01T00:00:00.00"
  /\ v.chars[2] \in Range(Digits)
  /\ v.chars[3] = "Z"

\* convertToISOString: an unparseable timestamp is a thrown error
ConvertThrows(v) == ~(v = Undefined \/ v.tag = "number" \/ IsIsoString(v))

ConvertToISOString(v, now) ==
  CASE v = Undefined    -> IsoString(now)
    [] v.tag = "number" -> IsoString(v.n)
    [] OTHER            -> v

\* ---------------------------------------------------------------- constructor
\* IdOf with the caller's id ignored
IdOfAlwaysFresh(in, uuid) == uuid

\* the value each line of the constructor assigns
IdOf(in, uuid) == Or(in.id, uuid)

SpecversionOf(in) == Or(in.specversion, SpecVersion10)

UriOrNull(v) == IF Falsy(v) THEN Null ELSE EncodeURI(v)

FieldValue(f, in, uuid, now) ==
  CASE f = "id"              -> IdOf(in, uuid)
    [] f = "time"            -> ConvertToISOString(in.time, now)
    [] f = "type"            -> in.type
    [] f = "source"          -> EncodeURI(in.source)
    [] f = "datacontenttype" -> Or(in.datacontenttype, DefaultContentType)
    [] f = "subject"         -> in.subject
    [] f = "data"            -> in.data
    [] f = "specversion"     -> SpecversionOf(in)
    [] f = "to"              -> UriOrNull(in.to)
    [] f = "redirectto"      -> UriOrNull(in.redirectto)
    [] OTHER                 -> Or(in[f], Null)

\* the error the assignment of field f throws, "" when it throws none
FieldError(f, in) ==
  CASE f = "time" /\ ConvertThrows(in.time)                      -> "RangeError"
    [] f = "source" /\ EncodeURIThrows(in.source)                -> "URIError"
    [] f \in {"to", "redirectto"} /\ ~Falsy(in[f])
         /\ EncodeURIThrows(in[f])                               -> "URIError"
    [] OTHER                                                     -> ""

\* the first assignment that throws; Len(AssignOrder) + 1 when none does
ThrowStep(in) ==
  LET bad == { i \in 1..Len(AssignOrder) : FieldError(AssignOrder[i], in) # "" }
  IN  IF bad = {} THEN Len(AssignOrder) + 1
      ELSE CHOOSE i \in bad : \A j \in bad : i <= j

\* Frozen with the call of Object.freeze left out
FrozenNever(stop) == FALSE

\* Object.freeze(this) is the last statement of the body
Frozen(stop) == stop > Len(AssignOrder)

\* `this` when the constructor body stops: the fields assigned so far, and
\* frozen only when line 60 was reached
Constructor(in, uuid, now) ==
  LET stop == ThrowStep(in)
      done == { AssignOrder[i] : i \in 1..(stop - 1) }
  IN  [ this   |-> [ f \in done |-> FieldValue(f, in, uuid, now) ],
        frozen |-> Frozen(stop),
        error  |-> IF stop > Len(AssignOrder) THEN ""
                   ELSE FieldError(AssignOrder[stop], in) ]

\* what `new XOrcaCloudEvent(in)` gives its caller: the object, or nothing
\* when the body threw
NoValue == [ tag |-> "novalue" ]

\* NewResult with the error caught and the object handed out as it is
NewResultCaught(c) == c.this

NewResult(c) == IF c.error # "" THEN NoValue ELSE c.this

\* ---------------------------------------------------------------- views
\* toJSON(): { ...this }, a new plain object with the own fields of `this`
ToJSON(ev) == [ k \in DOMAIN ev |-> ev[k] ]

\* the keys of the object literal of xorcaExtensions, in source order
ExtensionOrder ==
  << "to", "redirectto", "traceparent", "tracestate", "executionunits",
     "elapsedtime" >>

XorcaExtensions(ev) == [ k \in Range(ExtensionOrder) |-> ev[k] ]

\* Object.keys(this.xorcaExtensions)
ExtensionFields(ev) ==
  LET ext == XorcaExtensions(ev)
  IN  SelectSeq(ExtensionOrder, LAMBDA k : k \in DOMAIN ext)

\* Cloudevent with the filter left out
CloudeventUnfiltered(ev) == [ k \in DOMAIN ev |-> ev[k] ]

\* the entries of toJSON() whose key is not in extensionFields
Cloudevent(ev) ==
  LET json == ToJSON(ev)
      keep == { k \in DOMAIN json : k \notin Range(ExtensionFields(ev)) }
  IN  [ k \in keep |-> json[k] ]

\* ToCloudEventInput handing over the cloudevent view instead
ToCloudEventInputCoreOnly(ev) == Cloudevent(ev)

\* the record toCloudEvent() hands to `new CloudEvent(...)`
ToCloudEventInput(ev) == ToJSON(ev)

\* JSON.stringify(this.toJSON()): the text carries the payload's contents,
\* not a reference to it, and drops the keys whose value is undefined
Stringify(ev, hp) ==
  LET json == ToJSON(ev)
      keep == { k \in DOMAIN json : json[k] # Undefined }
  IN  [ k \in keep |->
          IF json[k].tag = "object"
            THEN [ tag |-> "json", value |-> hp[json[k].ref] ]
            ELSE json[k] ]

\* attribute key -> the field it reports
OtelField ==
  ( "cloudevents.event_id" :> "id" ) @@
  ( "cloudevents.event_source" :> "source" ) @@
  ( "cloudevents.event_spec_version" :> "specversion" ) @@
  ( "cloudevents.event_subject" :> "subject" ) @@
  ( "cloudevents.event_type" :> "type" ) @@
  ( "cloudevents.xorca.event_redirectto" :> "redirectto" ) @@
  ( "cloudevents.xorca.event_to" :> "to" ) @@
  ( "cloudevents.xorca.event_executionunits" :> "executionunits" ) @@
  ( "cloudevents.xorca.event_elapsedtime" :> "elapsedtime" )

\* OtelValue as String(v) would give it
OtelValueStringified(v) ==
  CASE v = Null      -> Str(<< "null" >>)
    [] v = Undefined -> Str(<< "undefined" >>)
    [] OTHER         -> v

\* this.<field> || ''
OtelValue(v) == Or(v, EmptyString)

OpenTelemetryAttributes(ev) ==
  [ a \in DOMAIN OtelField |-> OtelValue(ev[OtelField[a]]) ]

\* an assignment `ev.f = v` made by a caller: a frozen object ignores it
AssignField(ev, isFrozen, f, v) ==
  IF isFrozen THEN ev ELSE [ k \in DOMAIN ev \cup {f} |-> IF k = f THEN v ELSE ev[k] ]

\* ---------------------------------------------------------------- inputs
\* the symbols a caller's URI is made of
UriChars == { "s", "/", " ", "%", LoneSurrogate }

UriStrings ==
  { Str(s) : s \in UNION { [ 1..n -> UriChars ] : n \in 1..MaxLen } }

OptionalUris == { Undefined, Null, EmptyString } \cup UriStrings

OptionalStrings == { Undefined, Null, EmptyString, Str(<< "v" >>) }

\* the payload objects of the heap and what they can hold
Refs == { "payload", "other" }
Payloads == { [ amount |-> "10" ], [ amount |-> "20" ] }

BaseInput ==
  [ f \in Fields |->
      CASE f = "type"    -> Str(<< "order.created" >>)
        [] f = "source"  -> Str(<< "s" >>)
        [] f = "subject" -> Str(<< "order-42" >>)
        [] f = "data"    -> Obj("payload")
        [] f = "id"      -> Str(<< "evt-1" >>)
        [] OTHER         -> Undefined ]

\* { type: "order.created", source: "svc/orders", subject: "order-42",
\*   data: { amount: 10 } }
ExampleInput ==
  [ BaseInput EXCEPT !.id = Undefined, !.source = Str(<< "svc", "/", "orders" >>) ]

\* the raw records a caller constructs from: the required fields are always
\* present; each family varies the fields one group of lines reads
Inputs ==
  { ExampleInput }
  \cup { [ BaseInput EXCEPT !.id = i, !.specversion = v ] :
      i \in { Undefined, EmptyString, Str(<< "evt-1" >>) },
      v \in { Undefined, SpecVersion10, Str(<< "2.0" >>) } }
  \cup { [ BaseInput EXCEPT !.time = t, !.datacontenttype = d ] :
           t \in { Undefined, Num(1), IsoString(2), Str(<< "not a date" >>) },
           d \in { Undefined, DefaultContentType } }
  \cup { [ BaseInput EXCEPT !.source = s ] : s \in UriStrings }
  \cup { [ BaseInput EXCEPT !.to = u ] : u \in OptionalUris }
  \cup { [ BaseInput EXCEPT !.redirectto = u ] : u \in OptionalUris }
  \cup { [ BaseInput EXCEPT !.traceparent = p, !.tracestate = p, !.elapsedtime = e ] :
           p \in { Undefined, Str(<< "00-trace-01" >>) }, e \in OptionalStrings }
  \cup { [ BaseInput EXCEPT !.executionunits = x ] : x \in OptionalStrings }
  \cup { [ BaseInput EXCEPT !.type = t, !.subject = s, !.data = d ] :
           t \in { Str(<< "order.created" >>), Str(<< "order.shipped" >>) },
           s \in { Str(<< "order-42" >>), EmptyString },
           d \in { Obj(r) : r \in Refs } }

\* what uuidv4() and the system clock can hand out
Uuids == { Str(<< "3b241101-e2bb-4255-8caf-4136c566a962" >>),
           Str(<< "9f8c0ee4-6a1b-4d2f-b3a7-0c1d2e3f4a5b" >>) }
Instants == { 3 }

Tampered == Str(<< "tampered" >>)

\* ---------------------------------------------------------------- state
VARIABLES
  input,      \* the caller's raw record
  heap,       \* payload object -> its contents
  status,     \* "new", "constructed" or "thrown"
  event,      \* what `new` returned to the caller
  frozen,     \* Object.freeze(this) was reached
  error,      \* the error the constructor threw, "" when none
  given,      \* the record the constructor read
  initial,    \* the event's fields and payload right after construction
  prev,       \* the event whose toJSON() this one was constructed from
  rebuilds,   \* number of re-constructions so far
  returned    \* what the last call on the event returned

vars == << input, heap, status, event, frozen, error, given, initial, prev,
           rebuilds, returned >>

Nothing == [ op |-> "none", value |-> Null, tampered |-> FALSE ]

Init ==
  /\ input \in Inputs
  /\ heap = [ r \in Refs |-> IF r = "payload" THEN [ amount |-> "10" ]
                                               ELSE [ amount |-> "20" ] ]
  /\ status = "new"
  /\ event = NoValue
  /\ frozen = FALSE
  /\ error = ""
  /\ given = NoValue
  /\ initial = NoValue
  /\ prev = NoValue
  /\ rebuilds = 0
  /\ returned = Nothing

\* new XOrcaCloudEvent(in), the whole constructor
Build(in) ==
  \E uuid \in Uuids, now \in Instants :
    LET c == Constructor(in, uuid, now)
        ev == NewResult(c)
    IN  /\ status' = IF c.error = "" THEN "constructed" ELSE "thrown"
        /\ event' = ev
        /\ frozen' = c.frozen
        /\ error' = c.error
        /\ given' = in
        /\ initial' = IF c.error = "" /\ "data" \in DOMAIN c.this
                        THEN [ fields |-> c.this, payload |-> heap[c.this.data.ref] ]
                        ELSE [ fields |-> c.this, payload |-> Null ]
        /\ returned' = Nothing

Construct ==
  /\ status = "new"
  /\ Build(input)
  /\ UNCHANGED << input, heap, prev, rebuilds >>

\* new XOrcaCloudEvent(e.toJSON())
Reconstruct ==
  /\ status = "constructed"
  /\ rebuilds < MaxReconstruct
  /\ input' = ToJSON(event)
  /\ Build(ToJSON(event))
  /\ prev' = event
  /\ rebuilds' = rebuilds + 1
  /\ UNCHANGED heap

\* e.f = v, attempted by a caller
Assign ==
  /\ status = "constructed"
  /\ \E f \in Fields :
       /\ event' = AssignField(event, frozen, f, Tampered)
       /\ returned' = [ op |-> "assign", value |-> Tampered, tampered |-> FALSE ]
  /\ UNCHANGED << input, heap, status, frozen, error, given, initial, prev, rebuilds >>

Return(op, value) ==
  /\ status = "constructed"
  /\ returned' = [ op |-> op, value |-> value, tampered |-> FALSE ]
  /\ UNCHANGED << input, heap, status, event, frozen, error, given, initial, prev, rebuilds >>

CallToJSON == Return("toJSON", ToJSON(event))
CallToString == Return("toString", Stringify(event, heap))
GetXorcaExtensions == Return("xorcaExtensions", XorcaExtensions(event))
GetExtensionFields == Return("extensionFields", ExtensionFields(event))
GetCloudevent == Return("cloudevent", Cloudevent(event))
CallToCloudEvent == Return("toCloudEvent", ToCloudEventInput(event))
CallOpenTelemetryAttributes == Return("openTelemetryAttributes", OpenTelemetryAttributes(event))

\* the caller writes to its own raw record after construction
MutateInput ==
  /\ status = "constructed"
  /\ \E f \in { "source", "data" } :
       input' = [ input EXCEPT ![f] = Tampered ]
  /\ input' # input
  /\ UNCHANGED << heap, status, event, frozen, error, given, initial, prev, rebuilds, returned >>

IsPlainObject(r) == r.op \in { "toJSON", "cloudevent", "xorcaExtensions" }

\* the caller writes to a plain object a view returned
MutateReturned ==
  /\ status = "constructed"
  /\ IsPlainObject(returned)
  /\ \E k \in DOMAIN returned.value \cap { "source", "to", "data" } :
       /\ returned.value[k] # Tampered
       /\ returned' = [ returned EXCEPT !.value[k] = Tampered, !.tampered = TRUE ]
  /\ UNCHANGED << input, heap, status, event, frozen, error, given, initial, prev, rebuilds >>

\* the payload objects the caller can reach: through its raw record, through
\* the event's data field, through a returned plain object
ReachableRefs ==
  LET refOf(v) == IF v.tag = "object" THEN { v.ref } ELSE {}
      viaReturned ==
        IF IsPlainObject(returned) /\ "data" \in DOMAIN returned.value
          THEN refOf(returned.value.data) ELSE {}
  IN  refOf(input.data) \cup refOf(event.data) \cup viaReturned

\* the caller writes into a payload object it holds a reference to
MutateData ==
  /\ status = "constructed"
  /\ \E r \in ReachableRefs, p \in Payloads :
       /\ heap[r] # p
       /\ heap' = [ heap EXCEPT ![r] = p ]
  /\ UNCHANGED << input, status, event, frozen, error, given, initial, prev, rebuilds, returned >>

Next ==
  \/ Construct
  \/ Reconstruct
  \/ Assign
  \/ CallToJSON
  \/ CallToString
  \/ GetXorcaExtensions
  \/ GetExtensionFields
  \/ GetCloudevent
  \/ CallToCloudEvent
  \/ CallOpenTelemetryAttributes
  \/ MutateInput
  \/ MutateReturned
  \/ MutateData

Spec == Init /\ [][Next]_vars

\* ---------------------------------------------------------------- claims
Constructed == status = "constructed"

BaseFields ==
  { "id", "type", "source", "specversion", "datacontenttype", "subject",
    "time", "data" }

SixExtensions ==
  { "to", "redirectto", "traceparent", "tracestate", "elapsedtime",
    "executionunits" }

\* what a percent-encoded string stands for: "%20" is a space, "%25" a "%"
RECURSIVE PercentDecode(_)
PercentDecode(s) ==
  IF s = << >> THEN << >>
  ELSE IF Len(s) >= 3 /\ s[1] = "%" /\ s[2] = "2" /\ s[3] \in { "0", "5" }
    THEN << IF s[3] = "0" THEN " " ELSE "%" >> \o PercentDecode(SubSeq(s, 4, Len(s)))
    ELSE << s[1] >> \o PercentDecode(Tail(s))

\* v is the encodeURI form of the string orig: no raw space, every "%" opens
\* an escape, reserved "/" left as it is, and it decodes back to orig
IsEncodeURIFormOf(v, orig) ==
  /\ IsString(v)
  /\ \A i \in 1..Len(v.chars) :
       /\ v.chars[i] # " "
       /\ v.chars[i] = "%" =>
            /\ i + 2 <= Len(v.chars)
            /\ v.chars[i + 1] = "2"
            /\ v.chars[i + 2] \in { "0", "5" }
  /\ PercentDecode(v.chars) = orig.chars

\* C1: once an event is constructed, whatever assignments to its fields are
\* attempted, every field reads as it did right after construction.
C1_FieldsReadAsConstructed ==
  Constructed => /\ DOMAIN event = Fields
                 /\ \A f \in Fields : event[f] = initial.fields[f]

C1_Witness == Constructed /\ returned.op = "assign" /\ frozen

\* C2: the keys of the cloudevent view and extensionFields are disjoint, their
\* union is the 14 declared fields, extensionFields is the six extension
\* names once each, and cloudevent carries the toJSON() entries of the rest.
C2_Partition ==
  Constructed =>
    LET ce   == Cloudevent(event)
        xs   == ExtensionFields(event)
        json == ToJSON(event)
    IN  /\ DOMAIN ce \cap Range(xs) = {}
        /\ DOMAIN ce \cup Range(xs) = Fields
        /\ Cardinality(Fields) = 14
        /\ Cardinality(DOMAIN ce) + Len(xs) = Cardinality(Fields)
        /\ Range(xs) = SixExtensions
        /\ Len(xs) = 6
        /\ \A k \in DOMAIN ce : ce[k] = json[k]
        /\ returned.op = "cloudevent" /\ ~returned.tampered =>
             DOMAIN returned.value = DOMAIN json \ Range(xs)
        /\ returned.op = "extensionFields" =>
             returned.value = << "to", "redirectto", "traceparent", "tracestate",
                                 "executionunits", "elapsedtime" >>

C2_Witness ==
  /\ Constructed
  /\ returned.op = "cloudevent"
  /\ DOMAIN returned.value = BaseFields

\* C3 as stated: an id supplied as any string is kept exactly, an absent id
\* gives a generated UUIDv4, and the id is never empty.
C3_AnyStringIdKept ==
  Constructed =>
    /\ IsString(given.id) => event.id = given.id
    /\ given.id = Undefined => event.id \in Uuids
    /\ event.id # EmptyString

\* C3 amended: a non-empty id supplied by the caller is kept exactly; an
\* absent or empty id gives a generated UUIDv4; the id is never empty.
C3_NonEmptyIdKept ==
  Constructed =>
    /\ IsString(given.id) /\ given.id # EmptyString => event.id = given.id
    /\ given.id \in { Undefined, EmptyString } => event.id \in Uuids
    /\ IsString(event.id)
    /\ event.id # EmptyString

C3_Witness ==
  /\ Constructed
  /\ given.id = EmptyString
  /\ event.id \in Uuids

\* C4: whatever specversion the input carried, the event's specversion is
\* the literal "1.0".
C4_SpecversionIsOnePointZero ==
  Constructed => event.specversion = SpecVersion10

\* C5 as stated: the stored source has its reserved URI characters escaped,
\* "svc/orders" being stored as "svc%2Forders", and the cloudevent view
\* carries the stored source.
C5_ReservedEscaped ==
  Constructed =>
    /\ \A i \in 1..Len(event.source.chars) : event.source.chars[i] # "/"
    /\ given.source = Str(<< "svc", "/", "orders" >>) =>
         event.source = Str(<< "svc", "%", "2", "F", "orders" >>)
    /\ Cloudevent(event).source = event.source

\* C5 amended: source (and to, redirectto when non-null) holds the encodeURI
\* form of the caller's value: characters outside the URI character set are
\* percent-escaped, reserved URI characters such as "/" stay as they are
\* ("svc/orders" is stored as "svc/orders"), and the cloudevent view carries
\* the stored source unchanged.
C5_StoredAsEncodeURI ==
  Constructed =>
    /\ IsEncodeURIFormOf(event.source, given.source)
    /\ \A f \in { "to", "redirectto" } :
         IF event[f] = Null THEN Falsy(given[f])
         ELSE IsEncodeURIFormOf(event[f], given[f])
    /\ given.source = Str(<< "svc", "/", "orders" >>) =>
         event.source = Str(<< "svc", "/", "orders" >>)
    /\ Cloudevent(event).source = event.source
    /\ returned.op = "cloudevent" /\ ~returned.tampered =>
         returned.value.source = event.source

C5_Witness ==
  /\ Constructed
  /\ given.source = Str(<< "svc", "/", "orders" >>)
  /\ returned.op = "cloudevent"
  /\ returned.value.source = Str(<< "svc", "/", "orders" >>)

\* C6 as stated: the cloudevent view and the record toCloudEvent() hands to
\* CloudEvent both hold the base fields only, none of the six extensions.
C6_BothBaseOnly ==
  Constructed /\ returned.op \in { "cloudevent", "toCloudEvent" } =>
    /\ DOMAIN returned.value \cap SixExtensions = {}
    /\ DOMAIN returned.value = BaseFields

\* C6 amended: the cloudevent view holds the eight base fields and none of
\* the six extensions; the record toCloudEvent() hands to CloudEvent is the
\* full toJSON() snapshot, all 14 fields, the six extensions included.
C6_ViewBaseOnlyHandOverFull ==
  Constructed =>
    /\ returned.op = "cloudevent" =>
         /\ DOMAIN returned.value \cap SixExtensions = {}
         /\ DOMAIN returned.value = BaseFields
    /\ returned.op = "toCloudEvent" =>
         /\ DOMAIN returned.value = BaseFields \cup SixExtensions
         /\ \A k \in DOMAIN returned.value : returned.value[k] = event[k]

C6_Witness ==
  /\ Constructed
  /\ returned.op = "toCloudEvent"
  /\ SixExtensions \subseteq DOMAIN returned.value

C8_TelemetryAttributes ==
  Constructed /\ returned.op = "openTelemetryAttributes" =>
    LET a == returned.value
        shown(v) == IF v = Null THEN EmptyString ELSE v
    IN  /\ DOMAIN a =
             { "cloudevents.event_id", "cloudevents.event_source",
               "cloudevents.event_spec_version", "cloudevents.event_subject",
               "cloudevents.event_type", "cloudevents.xorca.event_redirectto",
               "cloudevents.xorca.event_to",
               "cloudevents.xorca.event_executionunits",
               "cloudevents.xorca.event_elapsedtime" }
        /\ a["cloudevents.event_id"] = event.id
        /\ a["cloudevents.event_source"] = event.source
        /\ a["cloudevents.event_spec_version"] = event.specversion
        /\ a["cloudevents.event_subject"] = event.subject
        /\ a["cloudevents.event_type"] = event.type
        /\ a["cloudevents.xorca.event_redirectto"] = shown(event.redirectto)
        /\ a["cloudevents.xorca.event_to"] = shown(event.to)
        /\ a["cloudevents.xorca.event_executionunits"] = shown(event.executionunits)
        /\ a["cloudevents.xorca.event_elapsedtime"] = shown(event.elapsedtime)
        /\ \A k \in DOMAIN a : a[k] # Str(<< "null" >>) /\ IsString(a[k])

C8_Witness ==
  /\ Constructed
  /\ returned.op = "openTelemetryAttributes"
  /\ event.to = Null
  /\ event.elapsedtime = Null
  /\ returned.value["cloudevents.xorca.event_to"] = EmptyString

\* C9: an event constructed from e.toJSON() has the 14 fields of e; source,
\* to and redirectto are not encoded a second time.
C9_ReconstructionIsFixedPoint ==
  Constructed /\ rebuilds > 0 =>
    \A f \in Fields : event[f] = prev[f]

\* C10: after construction, nothing done to the caller's raw record, to its
\* data payload, or to an object a view returned changes what the event's
\* fields, its payload, toJSON() or toString() read as.
C10_IsolatedFromOutside ==
  Constructed =>
    /\ \A f \in Fields : event[f] = initial.fields[f]
    /\ heap[event.data.ref] = initial.payload
    /\ Stringify(event, heap) = Stringify(initial.fields, [ r \in Refs |-> initial.payload ])

====
